---- MODULE Spec2Model ----
(***************************************************************************)
(* iSECTECH proxy, src/server.js (the "Quick + Advanced Scanner" server):  *)
(* the POST /scan handler, runQuickScan, runAdvancedScan, the SSL Labs     *)
(* poll loop and the finding mappers.                                      *)
(*                                                                         *)
(* Conventions of the model                                                *)
(*  - a JavaScript string that the code inspects (the target) is a         *)
(*    sequence of one-character strings; a template literal is the         *)
(*    concatenation of its pieces, so a title is a sequence of pieces;     *)
(*  - an optional JavaScript value (undefined / null / absent property)    *)
(*    is a set with at most one element: {} is absent, {v} is v;           *)
(*  - timestamps are whole seconds (the code divides its millisecond       *)
(*    timestamps by 1000 before it uses them).                             *)
(***************************************************************************)
EXTENDS Integers, Sequences, FiniteSets, TLC

VARIABLES
    SHODAN_KEY,   \* process.env.SHODAN_KEY, read once at start-up
    pc,           \* position of the POST /scan handler
    body,         \* req.body of the request being served
    raw,          \* target.trim(), the argument of run*Scan
    host,         \* tidyHost(raw) inside runAdvancedScan
    sh,           \* securityheaders.com request: [status, data]
    ssl,          \* sslLabsScan(host): [status, data, i, polls, sleeps, pendings, reason]
    shd,          \* Shodan element of the Promise.allSettled array: [status, data]
    settled,      \* adapters in the order in which their promises settled
    requests,     \* kinds of outbound HTTP request issued so far
    now,          \* Date.now()/1000
    merged,       \* findings after lines 72-74, {} until they have run
    snap,         \* result of getHeaderSnapshot, {} until it has returned
    response,     \* what res.status().json() sent, {} until it is sent
    mapIn,        \* mapper harness: the payload handed to a mapper
    mapOut        \* mapper harness: what the mapper returned

vars == <<SHODAN_KEY, pc, body, raw, host, sh, ssl, shd, settled, requests,
          now, merged, snap, response, mapIn, mapOut>>

scanVars == <<SHODAN_KEY, pc, body, raw, host, sh, ssl, shd, settled, requests,
              now, merged, snap, response>>

(***************************************************************************)
(* Bounds of the model and constants of the program                        *)
(***************************************************************************)
StartTime == 1000000          \* Date.now()/1000 when the server starts
MaxPolls == 12                \* for(let i=0;i<12;i++)
SleepSeconds == 15            \* setTimeout(r,15000)
SecondsPerDay == 86400        \* /86400
ExpiryDays == 30              \* if(days<30)

(***************************************************************************)
(* Optional values                                                         *)
(***************************************************************************)
Some(v) == {v}
None == {}
Get(o) == CHOOSE v \in o : TRUE

(***************************************************************************)
(* Strings                                                                 *)
(***************************************************************************)
Str(s) == [type |-> "string", val |-> s]

IsSpace(c) == c \in {" ", "\t", "\n"}

RECURSIVE trimStart(_)
trimStart(s) ==
    IF s # <<>> /\ IsSpace(Head(s)) THEN trimStart(Tail(s)) ELSE s

RECURSIVE trimEnd(_)
trimEnd(s) ==
    IF s # <<>> /\ IsSpace(s[Len(s)]) THEN trimEnd(SubSeq(s, 1, Len(s) - 1)) ELSE s

\* String.prototype.trim
trim(s) == trimEnd(trimStart(s))

\* one character under the regular expression flag i
Lower(c) ==
    CASE c = "H" -> "h" [] c = "T" -> "t" [] c = "P" -> "p" [] c = "S" -> "s"
      [] OTHER -> c

LowerSeq(s) == [k \in 1..Len(s) |-> Lower(s[k])]

IsPrefix(p, s) == Len(s) >= Len(p) /\ SubSeq(s, 1, Len(p)) = p

\* length of the match of /^https?:\/\//i at the start of s, 0 if none
SchemeLen(s) ==
    IF IsPrefix(<<"h","t","t","p","s",":","/","/">>, LowerSeq(s)) THEN 8
    ELSE IF IsPrefix(<<"h","t","t","p",":","/","/">>, LowerSeq(s)) THEN 7
    ELSE 0

RECURSIVE BeforeSlash(_)
\* s.replace(/\/.*$/,'') : everything before the first slash
BeforeSlash(s) ==
    IF s = <<>> \/ Head(s) = "/" THEN <<>> ELSE <<Head(s)>> \o BeforeSlash(Tail(s))

tidyHost(r) == BeforeSlash(SubSeq(r, SchemeLen(r) + 1, Len(r)))

\* the URL getHeaderSnapshot requests
guess(r) == IF SchemeLen(r) > 0 THEN r ELSE <<"h","t","t","p","s",":","/","/">> \o r

(***************************************************************************)
(* Findings                                                                *)
(***************************************************************************)
Finding(sev, title, fix) == [severity |-> sev, title |-> title, fix |-> fix]

Unreachable(err) ==
    <<Finding("high", <<"Unreachable: ", err>>, <<"Check DNS / firewall.">>)>>

\* a header value is falsy when the header is absent or its value is ''
Truthy(o) == o # None /\ Get(o) # ""

\* a lookup that keeps the case of the header names
LowerName_Identity(k) == k

\* header names as Object.entries lists them, lowercased by toLowerCase()
LowerName(k) ==
    CASE k = "Strict-Transport-Security" -> "strict-transport-security"
      [] k = "Content-Security-Policy" -> "content-security-policy"
      [] k = "X-Frame-Options" -> "x-frame-options"
      [] k = "Server" -> "server"
      [] OTHER -> k

RECURSIVE Lookup(_, _)
\* h[name] of Object.fromEntries(entries with lowercased keys): the last entry wins
Lookup(headers, name) ==
    IF headers = <<>> THEN None
    ELSE LET last == headers[Len(headers)] IN
         IF LowerName(last[1]) = name THEN Some(last[2])
         ELSE Lookup(SubSeq(headers, 1, Len(headers) - 1), name)

\* the rules without the final "no obvious issues" finding
basicHeaderRules_NoFallback(r, headers) ==
    (IF ~Truthy(Lookup(headers, "strict-transport-security"))
     THEN <<Finding("medium", <<"Missing HSTS">>, <<"Add Strict-Transport-Security.">>)>>
     ELSE <<>>)
    \o (IF ~Truthy(Lookup(headers, "content-security-policy"))
        THEN <<Finding("medium", <<"Missing CSP">>, <<"Add Content-Security-Policy.">>)>>
        ELSE <<>>)
    \o (IF ~Truthy(Lookup(headers, "x-frame-options"))
        THEN <<Finding("low", <<"Missing X-Frame-Options">>, <<"Add SAMEORIGIN or DENY.">>)>>
        ELSE <<>>)
    \o (IF Truthy(Lookup(headers, "server"))
        THEN <<Finding("low", <<"Server banner: ", Get(Lookup(headers, "server"))>>,
                       <<"Remove or obfuscate Server header.">>)>>
        ELSE <<>>)

basicHeaderRules(r, headers) ==
    LET hsts == IF ~Truthy(Lookup(headers, "strict-transport-security"))
                THEN <<Finding("medium", <<"Missing HSTS">>, <<"Add Strict-Transport-Security.">>)>>
                ELSE <<>>
        csp  == IF ~Truthy(Lookup(headers, "content-security-policy"))
                THEN <<Finding("medium", <<"Missing CSP">>, <<"Add Content-Security-Policy.">>)>>
                ELSE <<>>
        xfo  == IF ~Truthy(Lookup(headers, "x-frame-options"))
                THEN <<Finding("low", <<"Missing X-Frame-Options">>, <<"Add SAMEORIGIN or DENY.">>)>>
                ELSE <<>>
        srv  == IF Truthy(Lookup(headers, "server"))
                THEN <<Finding("low", <<"Server banner: ", Get(Lookup(headers, "server"))>>,
                               <<"Remove or obfuscate Server header.">>)>>
                ELSE <<>>
        list == hsts \o csp \o xfo \o srv
    IN  IF Len(list) > 0 THEN list
        ELSE <<Finding("low", <<"No obvious header issues for ">> \o tidyHost(r),
                       <<"Run advanced scan for deeper checks.">>)>>

\* the table with C moved to the first row
gradeToSeverity_CLow(g) ==
    IF g \in {Some("A+"), Some("A"), Some("C")} THEN "low"
    ELSE IF g \in {Some("B")} THEN "medium"
    ELSE "high"

gradeToSeverity(g) ==
    IF g \in {Some("A+"), Some("A")} THEN "low"
    ELSE IF g \in {Some("B"), Some("C")} THEN "medium"
    ELSE "high"

\* result of a mapper call: the array it returns, or the TypeError it throws
Returns(list) == [threw |-> FALSE, out |-> list]
Throws == [threw |-> TRUE, out |-> <<>>]

\* (d.missing||[]) and (d.partial||[])
OrEmpty(o) == IF o = None THEN <<>> ELSE Get(o)

\* a weak header reported with the severity of a missing one
mapSecurityHeaders_WeakAsMedium(data) ==
    IF data = None THEN Throws
    ELSE LET d == Get(data)
             grade == IF Truthy(d.grade)
                      THEN <<Finding(gradeToSeverity(d.grade),
                                     <<"SecurityHeaders grade ", Get(d.grade)>>,
                                     <<"Add or strengthen headers to improve grade.">>)>>
                      ELSE <<>>
             missing == [k \in 1..Len(OrEmpty(d.missing)) |->
                           Finding("medium", <<"Missing ", OrEmpty(d.missing)[k], " header">>,
                                   <<"Add ", OrEmpty(d.missing)[k]>>)]
             partial == [k \in 1..Len(OrEmpty(d.partial)) |->
                           Finding("medium", <<OrEmpty(d.partial)[k], " header weak">>,
                                   <<"Harden ", OrEmpty(d.partial)[k]>>)]
         IN  Returns(grade \o missing \o partial)

mapSecurityHeaders(data) ==
    IF data = None THEN Throws
    ELSE LET d == Get(data)
             grade == IF Truthy(d.grade)
                      THEN <<Finding(gradeToSeverity(d.grade),
                                     <<"SecurityHeaders grade ", Get(d.grade)>>,
                                     <<"Add or strengthen headers to improve grade.">>)>>
                      ELSE <<>>
             missing == [k \in 1..Len(OrEmpty(d.missing)) |->
                           Finding("medium", <<"Missing ", OrEmpty(d.missing)[k], " header">>,
                                   <<"Add ", OrEmpty(d.missing)[k]>>)]
             partial == [k \in 1..Len(OrEmpty(d.partial)) |->
                           Finding("low", <<OrEmpty(d.partial)[k], " header weak">>,
                                   <<"Harden ", OrEmpty(d.partial)[k]>>)]
         IN  Returns(grade \o missing \o partial)

\* Math.floor in place of Math.round
RoundDays_Floor(seconds) == seconds \div SecondsPerDay

\* Math.round(seconds/86400): the nearest whole number, halves towards +infinity
RoundDays(seconds) == (2 * seconds + SecondsPerDay) \div (2 * SecondsPerDay)

\* ep.grade||'F'
GradeOrF(g) == IF Truthy(g) THEN g ELSE Some("F")

mapSsl(data, t) ==
    IF data = None THEN Throws
    ELSE IF Get(data).endpoints = None \/ Get(Get(data).endpoints) = <<>> THEN Returns(<<>>)
    ELSE LET ep == Get(Get(data).endpoints)[1]
             grade == <<Finding(gradeToSeverity(GradeOrF(ep.grade)),
                                <<"TLS grade ", Get(GradeOrF(ep.grade))>>,
                                <<"Upgrade weak ciphers / protocols, enable HSTS.">>)>>
             days == RoundDays(Get(ep.notAfter) - t)
             cert == IF ep.notAfter # None /\ Get(ep.notAfter) # 0 /\ days < ExpiryDays
                     THEN <<Finding("medium", <<"TLS cert expires in ", ToString(days), " days">>,
                                    <<"Renew certificate.">>)>>
                     ELSE <<>>
         IN  Returns(grade \o cert)

\* d.hostnames?.[0]||d.ip_str inside the template literal
PortLabel(d) ==
    IF d.hostnames # None /\ Get(d.hostnames) # <<>> /\ Get(d.hostnames)[1] # ""
    THEN Get(d.hostnames)[1]
    ELSE IF d.ip_str # None THEN Get(d.ip_str) ELSE "undefined"

\* only the SSH port counts as administrative
IsAdminPort_SshOnly(p) == p = 22

IsAdminPort(p) == p = 22 \/ p = 3389

mapShodan(data) ==
    IF data = None THEN Throws
    ELSE LET d == Get(data) IN
         IF d.ports = None THEN Returns(<<>>)
         ELSE Returns([k \in 1..Len(Get(d.ports)) |->
                  Finding(IF IsAdminPort(Get(d.ports)[k]) THEN "high" ELSE "medium",
                          <<"Port ", ToString(Get(d.ports)[k]), " open (", PortLabel(d), ")">>,
                          <<"Restrict access or close the service if not needed.">>)])

(***************************************************************************)
(* Inputs of a scan: request bodies and the answers of the network         *)
(***************************************************************************)
T_host == <<"a", ".", "i", "o">>
T_url  == <<"h","t","t","p",":","/","/","a",".","i","o","/","x"," ">>
T_ip   == <<"1","9","2",".","0",".","2",".","1","0">>

Targets ==
    { [type |-> "undefined"], [type |-> "number", num |-> 42],
      Str(<<>>), Str(<<" ", " ">>), Str(T_host), Str(T_url), Str(T_ip) }

Profiles == { None, Some("quick"), Some("full"), Some("FULL") }

Bodies == [target : Targets, profile : Profiles]

Keys == { None, Some("k3y") }

HeaderSets ==
    { <<>>,
      << <<"strict-transport-security", "max-age=1">>, <<"content-security-policy", "x">>,
         <<"x-frame-options", "DENY">> >>,
      << <<"Strict-Transport-Security", "max-age=1">>, <<"Server", "nginx">> >>,
      << <<"x-frame-options", "">>, <<"server", "">> >> }

ProbeErrors == { "ENOTFOUND", "ECONNABORTED" }

Snapshot(err, headers) == [error |-> err, headers |-> headers]

\* what getHeaderSnapshot can return for raw target r: a URL without a host is
\* refused by axios before anything is sent
ProbeOutcomes(r) ==
    IF tidyHost(guess(r)) = <<>>
    THEN { Snapshot(Some("ERR_INVALID_URL"), <<>>) }
    ELSE { Snapshot(Some(e), <<>>) : e \in ProbeErrors }
         \cup { Snapshot(None, h) : h \in HeaderSets }

HeaderData(g, m, p) == [grade |-> g, missing |-> m, partial |-> p]

ScanHeaderData ==
    { Some(HeaderData(None, None, None)),
      Some(HeaderData(Some("B"), Some(<<"Content-Security-Policy">>), Some(<<>>))) }

Endpoint(g, n) == [grade |-> g, notAfter |-> n]
SslData(eps) == [status |-> "READY", endpoints |-> eps]

HalfDay == SecondsPerDay \div 2

ScanSslData ==
    { SslData(None),
      SslData(Some(<<Endpoint(Some("A"), Some(StartTime + 29 * SecondsPerDay + HalfDay + 2 * SleepSeconds))>>)),
      SslData(Some(<<Endpoint(None, None)>>)) }

ShodanData(ports, names, ip) == [ports |-> ports, hostnames |-> names, ip_str |-> ip]

ScanShodanData ==
    { Some(ShodanData(None, None, Some("192.0.2.10"))),
      Some(ShodanData(Some(<<22, 80>>), None, Some("192.0.2.10"))) }

Idle == [status |-> "idle", data |-> None]
Pending == [status |-> "pending", data |-> None]
Fulfilled(d) == [status |-> "fulfilled", data |-> d]
Rejected == [status |-> "rejected", data |-> None]

SslIdle ==
    [status |-> "idle", data |-> None, i |-> 0, polls |-> 0, sleeps |-> 0,
     pendings |-> 0, reason |-> ""]

\* an element that is not awaited counts as settled at once
Settled_NotAwaited(p) == p.status # "idle"

Settled(p) == p.status \in {"fulfilled", "rejected"}

Ok(findings) == [status |-> 200, error |-> "", findings |-> findings]
Err(code, msg) == [status |-> code, error |-> msg, findings |-> <<>>]

(***************************************************************************)
(* Initial state: the server is listening, no request received             *)
(***************************************************************************)
ScanIdle ==
    /\ pc = "idle"
    /\ body = [target |-> [type |-> "undefined"], profile |-> None]
    /\ raw = <<>>
    /\ host = <<>>
    /\ sh = Idle
    /\ ssl = SslIdle
    /\ shd = Idle
    /\ settled = <<>>
    /\ requests = {}
    /\ now = StartTime
    /\ merged = None
    /\ snap = None
    /\ response = None

Init ==
    /\ SHODAN_KEY \in Keys
    /\ ScanIdle
    /\ mapIn = None
    /\ mapOut = None

(***************************************************************************)
(* POST /scan                                                              *)
(***************************************************************************)
\* !target || typeof target!=='string'
BadTarget(t) == t.type # "string" \/ t.val = <<>>

\* const { target, profile='quick' } = req.body
\* a request without a profile runs the full scan
ProfileOf_DefaultFull(b) == IF b.profile = None THEN "full" ELSE Get(b.profile)

ProfileOf(b) == IF b.profile = None THEN "quick" ELSE Get(b.profile)

\* the probe is requested together with the three adapters
LaunchAdvanced_WithProbe(r) ==
    /\ host' = tidyHost(r)
    /\ sh' = Pending
    /\ ssl' = [SslIdle EXCEPT !.status = "polling", !.polls = 1]
    /\ shd' = IF Truthy(SHODAN_KEY) THEN Pending ELSE Fulfilled(None)
    /\ settled' = IF Truthy(SHODAN_KEY) THEN <<>> ELSE <<"shd">>
    /\ requests' = {"probe", "securityheaders", "ssllabs"}
                     \cup (IF Truthy(SHODAN_KEY) THEN {"shodan"} ELSE {})
    /\ pc' = "advanced"

\* the synchronous part of runAdvancedScan: the three array elements are created
LaunchAdvanced(r) ==
    /\ host' = tidyHost(r)
    /\ sh' = Pending
    /\ ssl' = [SslIdle EXCEPT !.status = "polling", !.polls = 1]
    /\ shd' = IF Truthy(SHODAN_KEY) THEN Pending ELSE Fulfilled(None)
    /\ settled' = IF Truthy(SHODAN_KEY) THEN <<>> ELSE <<"shd">>
    /\ requests' = {"securityheaders", "ssllabs"}
                     \cup (IF Truthy(SHODAN_KEY) THEN {"shodan"} ELSE {})
    /\ pc' = "advanced"

\* the synchronous part of runQuickScan: getHeaderSnapshot issues its request
LaunchQuick ==
    /\ requests' = {"probe"}
    /\ pc' = "quick"
    /\ UNCHANGED <<host, sh, ssl, shd, settled>>

PostScan(b) ==
    /\ pc = "idle"
    /\ body' = b
    /\ IF BadTarget(b.target)
       THEN /\ response' = Some(Err(400, "target (string) is required"))
            /\ pc' = "done"
            /\ UNCHANGED <<raw, host, sh, ssl, shd, settled, requests>>
       ELSE /\ raw' = trim(b.target.val)
            /\ response' = response
            /\ IF ProfileOf(b) = "full" THEN LaunchAdvanced(raw') ELSE LaunchQuick
    /\ UNCHANGED <<SHODAN_KEY, now, merged, snap, mapIn, mapOut>>

\* snap.error ? [Unreachable] : basicHeaderRules(raw, snap.headers)
SnapshotFindings(r, s) ==
    IF Truthy(s.error) THEN Unreachable(Get(s.error)) ELSE basicHeaderRules(r, s.headers)

\* getHeaderSnapshot returns to runQuickScan, or to the fallback of runAdvancedScan
ProbeReturns(s) ==
    /\ pc \in {"quick", "fallback"}
    /\ s \in ProbeOutcomes(raw)
    /\ snap' = Some(s)
    /\ response' = Some(Ok(SnapshotFindings(raw, s)))
    /\ pc' = "done"
    /\ UNCHANGED <<SHODAN_KEY, body, raw, host, sh, ssl, shd, settled, requests,
                   now, merged, mapIn, mapOut>>

(***************************************************************************)
(* The three adapters of runAdvancedScan                                   *)
(***************************************************************************)
ShSettles(o) ==
    /\ pc = "advanced"
    /\ sh.status = "pending"
    /\ sh' = o
    /\ settled' = Append(settled, "sh")
    /\ UNCHANGED <<SHODAN_KEY, pc, body, raw, host, ssl, shd, requests, now, merged,
                   snap, response, mapIn, mapOut>>

ShdSettles(o) ==
    /\ pc = "advanced"
    /\ shd.status = "pending"
    /\ shd' = o
    /\ settled' = Append(settled, "shd")
    /\ UNCHANGED <<SHODAN_KEY, pc, body, raw, host, sh, ssl, requests, now, merged,
                   snap, response, mapIn, mapOut>>

\* answers to one poll: a transport error (or a body without data), or a status
PollErrors == { "transport", "nodata" }
PollStatuses == { "READY", "ERROR", "DNS", "IN_PROGRESS" }

SslReject(why) == [ssl EXCEPT !.status = "rejected", !.reason = why]

\* an ERROR or DNS status is slept on and polled again instead of thrown
SslPollReturns_RetryOnError(o, d) ==
    /\ pc = "advanced"
    /\ ssl.status = "polling"
    /\ IF o \in PollErrors
       THEN /\ ssl' = SslReject(o)
            /\ settled' = Append(settled, "ssl")
       ELSE IF o = "READY"
       THEN /\ ssl' = [ssl EXCEPT !.status = "fulfilled", !.data = Some(d)]
            /\ settled' = Append(settled, "ssl")
       ELSE IF o \in {"ERROR", "DNS"}
       THEN /\ ssl' = [ssl EXCEPT !.status = "sleeping", !.sleeps = @ + 1]
            /\ settled' = settled
       ELSE /\ ssl' = [ssl EXCEPT !.status = "sleeping", !.sleeps = @ + 1,
                                  !.pendings = @ + 1]
            /\ settled' = settled
    /\ UNCHANGED <<SHODAN_KEY, pc, body, raw, host, sh, shd, requests, now, merged,
                   snap, response, mapIn, mapOut>>

\* the timer is not awaited: a pending answer is followed at once by the next poll
SslPollReturns_NoSleep(o, d) ==
    /\ pc = "advanced"
    /\ ssl.status = "polling"
    /\ IF o \in PollErrors
       THEN /\ ssl' = SslReject(o)
            /\ settled' = Append(settled, "ssl")
       ELSE IF o = "READY"
       THEN /\ ssl' = [ssl EXCEPT !.status = "fulfilled", !.data = Some(d)]
            /\ settled' = Append(settled, "ssl")
       ELSE IF o \in {"ERROR", "DNS"}
       THEN /\ ssl' = SslReject("SSL Labs error")
            /\ settled' = Append(settled, "ssl")
       ELSE IF ssl.i + 1 < MaxPolls
       THEN /\ ssl' = [ssl EXCEPT !.i = @ + 1, !.polls = @ + 1, !.pendings = @ + 1]
            /\ settled' = settled
       ELSE /\ ssl' = [SslReject("SSL Labs timed out") EXCEPT !.i = @ + 1, !.pendings = @ + 1]
            /\ settled' = Append(settled, "ssl")
    /\ UNCHANGED <<SHODAN_KEY, pc, body, raw, host, sh, shd, requests, now, merged,
                   snap, response, mapIn, mapOut>>

\* the response to the poll of iteration i arrives: lines 141-144
SslPollReturns(o, d) ==
    /\ pc = "advanced"
    /\ ssl.status = "polling"
    /\ IF o \in PollErrors
       THEN /\ ssl' = SslReject(o)
            /\ settled' = Append(settled, "ssl")
       ELSE IF o = "READY"
       THEN /\ ssl' = [ssl EXCEPT !.status = "fulfilled", !.data = Some(d)]
            /\ settled' = Append(settled, "ssl")
       ELSE IF o \in {"ERROR", "DNS"}
       THEN /\ ssl' = SslReject("SSL Labs error")
            /\ settled' = Append(settled, "ssl")
       ELSE /\ ssl' = [ssl EXCEPT !.status = "sleeping", !.sleeps = @ + 1,
                                  !.pendings = @ + 1]
            /\ settled' = settled
    /\ UNCHANGED <<SHODAN_KEY, pc, body, raw, host, sh, shd, requests, now, merged,
                   snap, response, mapIn, mapOut>>

\* i<=12 in place of i<12
LoopTest_Inclusive(i) == i <= MaxPolls

\* the loop condition i<12
LoopTest(i) == i < MaxPolls

\* the 15 s timer fires: i++, then the loop test and the next poll or the timeout
SslWakes ==
    /\ pc = "advanced"
    /\ ssl.status = "sleeping"
    /\ now' = now + SleepSeconds
    /\ IF LoopTest(ssl.i + 1)
       THEN /\ ssl' = [ssl EXCEPT !.status = "polling", !.i = @ + 1, !.polls = @ + 1]
            /\ settled' = settled
       ELSE /\ ssl' = [SslReject("SSL Labs timed out") EXCEPT !.i = @ + 1]
            /\ settled' = Append(settled, "ssl")
    /\ UNCHANGED <<SHODAN_KEY, pc, body, raw, host, sh, shd, requests, merged,
                   snap, response, mapIn, mapOut>>

\* findings.push(...mapX(value)) guarded by status==='fulfilled'; acc is [threw, out]
Push(acc, fulfilled, mapped) ==
    IF acc.threw \/ ~fulfilled THEN acc
    ELSE IF mapped.threw THEN [threw |-> TRUE, out |-> acc.out]
    ELSE Returns(acc.out \o mapped.out)

\* the Shodan findings pushed first
MergeAdapters_ShodanFirst(a, b, c, t) ==
    Push(Push(Push(Returns(<<>>),
                   c.status = "fulfilled", mapShodan(c.data)),
              a.status = "fulfilled", mapSecurityHeaders(a.data)),
         b.status = "fulfilled", mapSsl(b.data, t))

\* lines 71-74
MergeAdapters(a, b, c, t) ==
    Push(Push(Push(Returns(<<>>),
                   a.status = "fulfilled", mapSecurityHeaders(a.data)),
              b.status = "fulfilled", mapSsl(b.data, t)),
         c.status = "fulfilled", mapShodan(c.data))

\* Promise.allSettled resolves: lines 71-83 up to the await of the fallback probe
AllSettled ==
    /\ pc = "advanced"
    /\ Settled(sh) /\ Settled(ssl) /\ Settled(shd)
    /\ LET m == MergeAdapters(sh, ssl, shd, now) IN
       /\ merged' = Some(m.out)
       /\ IF m.threw
          THEN /\ response' = Some(Err(500, "scan failed"))
               /\ pc' = "done"
               /\ requests' = requests
          ELSE IF Len(m.out) = 0
          THEN /\ response' = response
               /\ pc' = "fallback"
               /\ requests' = requests \cup {"probe"}
          ELSE /\ response' = Some(Ok(m.out))
               /\ pc' = "done"
               /\ requests' = requests
    /\ UNCHANGED <<SHODAN_KEY, body, raw, host, sh, ssl, shd, settled, now, snap,
                   mapIn, mapOut>>

Next ==
    \/ \E b \in Bodies : PostScan(b)
    \/ \E s \in ProbeOutcomes(raw) : ProbeReturns(s)
    \/ \E d \in ScanHeaderData : ShSettles(Fulfilled(d))
    \/ ShSettles(Rejected)
    \/ \E d \in ScanShodanData : ShdSettles(Fulfilled(d))
    \/ ShdSettles(Rejected)
    \/ \E o \in PollErrors \cup (PollStatuses \ {"READY"}) : SslPollReturns(o, SslData(None))
    \/ \E d \in ScanSslData : SslPollReturns("READY", d)
    \/ SslWakes
    \/ AllSettled

Spec == Init /\ [][Next]_vars

(***************************************************************************)
(* The mappers on their own: every payload of the sets below is handed to  *)
(* the mapper that reads it                                                *)
(***************************************************************************)
MaxList == 2                  \* longest missing / partial list
MaxPorts == 2                 \* longest ports list

SeqsUpTo(S, n) == UNION { [1..k -> S] : k \in 0..n }

Grades ==
    { None, Some(""), Some("A+"), Some("A"), Some("B"), Some("C"), Some("D"),
      Some("E"), Some("F"), Some("T"), Some("Z") }

HeaderNames == { "Content-Security-Policy", "X-Frame-Options" }

HeaderLists == { None } \cup { Some(l) : l \in SeqsUpTo(HeaderNames, MaxList) }

AllHeaderData ==
    { None } \cup { Some(HeaderData(g, m, p)) : g \in Grades, m \in HeaderLists, p \in HeaderLists }

\* seconds from the first clock value to the certificate's expiry
ExpiryOffsets ==
    { 0 - 5 * SecondsPerDay, 0, 10 * SecondsPerDay, 29 * SecondsPerDay,
      29 * SecondsPerDay + HalfDay - 1, 29 * SecondsPerDay + HalfDay,
      29 * SecondsPerDay + HalfDay + SleepSeconds, 30 * SecondsPerDay - 1,
      30 * SecondsPerDay, 30 * SecondsPerDay + HalfDay, 400 * SecondsPerDay }

NotAfters == { None, Some(0) } \cup { Some(StartTime + o) : o \in ExpiryOffsets }

Clocks == { StartTime, StartTime + SleepSeconds, StartTime + HalfDay }

AllSslData ==
    { None, Some(SslData(None)), Some(SslData(Some(<<>>))) }
      \cup { Some(SslData(Some(<<Endpoint(g, n)>>))) : g \in Grades, n \in NotAfters }

Ports == { 22, 80, 443, 3389 }

AllShodanData ==
    { None } \cup
    { Some(ShodanData(p, h, ip)) :
        p \in { None } \cup { Some(l) : l \in SeqsUpTo(Ports, MaxPorts) },
        h \in { None, Some(<<>>), Some(<<"a.io">>) },
        ip \in { None, Some("192.0.2.10") } }

MapInput(fn, g, d, t) == [fn |-> fn, grade |-> g, data |-> d, t |-> t]

\* one header of a snapshot: absent, lowercase, as the server spelled it, or empty
HeaderChoices(lower, spelled, value) ==
    { <<>>, << <<lower, value>> >>, << <<spelled, value>> >>, << <<lower, "">> >> }

AllHeaderSets ==
    { a \o b \o c \o d :
        a \in HeaderChoices("strict-transport-security", "Strict-Transport-Security", "max-age=1"),
        b \in HeaderChoices("content-security-policy", "Content-Security-Policy", "x"),
        c \in HeaderChoices("x-frame-options", "X-Frame-Options", "DENY"),
        d \in HeaderChoices("server", "Server", "nginx") }

RulesInput(r, h) ==
    [fn |-> "basicHeaderRules", grade |-> None, data |-> None, t |-> StartTime,
     raw |-> r, headers |-> h]

RulesInputs == { RulesInput(r, h) : r \in {T_host, trim(T_url)}, h \in AllHeaderSets }

MapInputs ==
    { MapInput("gradeToSeverity", g, None, StartTime) : g \in Grades }
      \cup { MapInput("mapSecurityHeaders", None, d, StartTime) : d \in AllHeaderData }
      \cup { MapInput("mapSsl", None, d, t) : d \in AllSslData, t \in Clocks }
      \cup { MapInput("mapShodan", None, d, StartTime) : d \in AllShodanData }

MapInit ==
    /\ SHODAN_KEY = None
    /\ ScanIdle
    /\ mapIn \in { Some(x) : x \in MapInputs \cup RulesInputs }
    /\ mapOut = None

CallGradeToSeverity ==
    /\ mapIn # None /\ mapOut = None
    /\ Get(mapIn).fn = "gradeToSeverity"
    /\ mapOut' = Some(Returns(<<gradeToSeverity(Get(mapIn).grade)>>))
    /\ UNCHANGED <<scanVars, mapIn>>

CallMapSecurityHeaders ==
    /\ mapIn # None /\ mapOut = None
    /\ Get(mapIn).fn = "mapSecurityHeaders"
    /\ mapOut' = Some(mapSecurityHeaders(Get(mapIn).data))
    /\ UNCHANGED <<scanVars, mapIn>>

CallMapSsl ==
    /\ mapIn # None /\ mapOut = None
    /\ Get(mapIn).fn = "mapSsl"
    /\ mapOut' = Some(mapSsl(Get(mapIn).data, Get(mapIn).t))
    /\ UNCHANGED <<scanVars, mapIn>>

CallMapShodan ==
    /\ mapIn # None /\ mapOut = None
    /\ Get(mapIn).fn = "mapShodan"
    /\ mapOut' = Some(mapShodan(Get(mapIn).data))
    /\ UNCHANGED <<scanVars, mapIn>>

CallBasicHeaderRules ==
    /\ mapIn # None /\ mapOut = None
    /\ Get(mapIn).fn = "basicHeaderRules"
    /\ mapOut' = Some(Returns(basicHeaderRules(Get(mapIn).raw, Get(mapIn).headers)))
    /\ UNCHANGED <<scanVars, mapIn>>

MapNext ==
    \/ CallBasicHeaderRules
    \/ CallGradeToSeverity
    \/ CallMapSecurityHeaders
    \/ CallMapSsl
    \/ CallMapShodan

MapSpec == MapInit /\ [][MapNext]_vars

(***************************************************************************)
(* Properties                                                              *)
(***************************************************************************)
Answered == response # None
Result == Get(response)
Accepted == pc # "idle" /\ ~BadTarget(body.target)
Advanced == Accepted /\ ProfileOf(body) = "full"
Quick == Accepted /\ ProfileOf(body) # "full"
\* an advanced scan of a target that names a host
AdvancedOnHost == Advanced /\ tidyHost(raw) # <<>>
Has(list, f) == \E k \in 1..Len(list) : list[k] = f
AllIn(part, list) == \A k \in 1..Len(part) : Has(list, part[k])

\* the Shodan element stands for an adapter that ran only if its request was issued
ShodanRan == "shodan" \in requests

\* C1: scan never throws to its caller: a request is answered 400 exactly when its
\* target is missing, empty or not a string, and every other request (stated
\* here for the targets that name a host) is answered with findings, never with
\* the 500 "scan failed" response, whatever the probe and the providers did and
\* whether or not the Shodan key is configured.
C1_ScanNeverThrows ==
    Answered =>
        \/ Result.status = 400 /\ BadTarget(body.target)
        \/ Result.status = 200 /\ ~BadTarget(body.target)
        \/ ~BadTarget(body.target) /\ tidyHost(raw) = <<>>

\* C2: whenever a scan (quick or advanced) returns a finding sequence, the
\* sequence is non-empty, also when the providers succeed with payloads that
\* map to no finding.
C2_ReturnedFindingsNonEmpty ==
    (Answered /\ Result.status = 200) => Len(Result.findings) > 0

\* an advanced scan whose three adapters succeeded with payloads that map to
\* nothing, answered with findings
C2_Witness ==
    /\ pc = "done" /\ Advanced /\ ShodanRan
    /\ sh = Fulfilled(Some(HeaderData(None, None, None)))
    /\ ssl.status = "fulfilled" /\ ssl.data = Some(SslData(None))
    /\ shd = Fulfilled(Some(ShodanData(None, None, Some("192.0.2.10"))))
    /\ merged = Some(<<>>)
    /\ Answered /\ Result.status = 200 /\ Len(Result.findings) > 0

\* C3: in an advanced scan, whichever adapters fail, the result contains every
\* finding derived from every adapter that succeeded (so header-grading grade B
\* with an errored TLS adapter still shows the header-grading findings).
C3_SucceededAdaptersContribute ==
    (pc = "done" /\ AdvancedOnHost) =>
        /\ sh.status = "fulfilled" =>
              AllIn(mapSecurityHeaders(sh.data).out, Result.findings)
        /\ ssl.status = "fulfilled" =>
              AllIn(mapSsl(ssl.data, now).out, Result.findings)
        /\ (shd.status = "fulfilled" /\ ShodanRan) =>
              AllIn(mapShodan(shd.data).out, Result.findings)

\* C4: a poll loop whose every answer is a pending status ends in the timed-out
\* outcome after exactly 12 polls: it issues at most 12 polls, it times out only
\* after 12 polls that all answered pending, and after the 12th pending answer
\* it issues no further poll.
C4_PollLoopTimesOutAfterTwelve ==
    /\ ssl.polls <= 12
    /\ ssl.reason = "SSL Labs timed out" =>
          ssl.status = "rejected" /\ ssl.polls = 12 /\ ssl.pendings = 12
    /\ ssl.pendings = 12 =>
          /\ ssl.polls = 12
          /\ \/ ssl.status = "sleeping"
             \/ ssl.status = "rejected" /\ ssl.reason = "SSL Labs timed out"
    /\ (ssl.status = "rejected" /\ ssl.pendings = ssl.polls) =>
          ssl.reason = "SSL Labs timed out"

\* the loop has timed out after twelve pending answers
C4_Witness ==
    /\ ssl.status = "rejected" /\ ssl.reason = "SSL Labs timed out"
    /\ ssl.polls = 12 /\ ssl.pendings = 12 /\ ssl.sleeps = 12
    /\ Has(settled, "ssl")

\* what the handler answers when the Shodan adapter has failed
AnswerWithoutShodan ==
    LET m == MergeAdapters(sh, ssl, Rejected, now) IN
    IF m.threw THEN Answered /\ Result = Err(500, "scan failed")
    ELSE IF m.out = <<>>
    THEN Answered /\ snap # None /\ Result = Ok(SnapshotFindings(raw, Get(snap)))
    ELSE Answered /\ Result = Ok(m.out)

\* C5: without SHODAN_KEY an advanced scan issues no Shodan request, and the
\* adapter counts as a failure that is filtered out: it adds no finding and no
\* error, so the answer is the one the scan gives when that adapter failed.
C5_AbsentKeyIsFilteredFailure ==
    (pc = "done" /\ AdvancedOnHost /\ ~Truthy(SHODAN_KEY)) =>
        /\ ~ShodanRan
        /\ AnswerWithoutShodan

\* the findings of the adapters that succeeded
AdapterFindings ==
    MergeAdapters(sh, ssl, IF ShodanRan THEN shd ELSE Rejected, now).out

\* C6: in an advanced scan the fallback runs exactly when the adapters produced
\* no finding: then the result is the rule engine's output for the snapshot, or
\* exactly one high "Unreachable: <reason>" finding when the probe failed; when
\* the adapters produced findings the probe is not run and the result is theirs.
C6_FallbackIffNothingMerged ==
    (pc = "done" /\ AdvancedOnHost) =>
        IF AdapterFindings = <<>>
        THEN /\ snap # None
             /\ "probe" \in requests
             /\ Answered
             /\ Result.status = 200
             /\ IF Get(snap).error # None
                THEN Result.findings = Unreachable(Get(Get(snap).error))
                ELSE Result.findings = basicHeaderRules(raw, Get(snap).headers)
        ELSE /\ snap = None
             /\ "probe" \notin requests
             /\ Answered
             /\ Result = Ok(AdapterFindings)

\* C7: a target that is missing, empty or not a string is answered 400 with no
\* request issued, and an accepted target is never empty when the probe or the
\* providers are called with it.
C7_InvalidInputBeforeNetwork ==
    /\ (pc # "idle" /\ BadTarget(body.target)) =>
          requests = {} /\ Answered /\ Result.status = 400
    /\ requests # {} => raw # <<>>

\* the grade table of the specification, row by row
ExpectedSeverity(g) ==
    IF g = None THEN "high"
    ELSE CASE Get(g) = "A+" -> "low"
           [] Get(g) = "A"  -> "low"
           [] Get(g) = "B"  -> "medium"
           [] Get(g) = "C"  -> "medium"
           [] OTHER -> "high"

MappedIn == Get(mapIn)
MappedOut == Get(mapOut)
Called(fn) == mapIn # None /\ mapOut # None /\ MappedIn.fn = fn

\* the endpoint mapSsl reads, when the payload has one
HasEndpoint ==
    /\ MappedIn.data # None
    /\ Get(MappedIn.data).endpoints # None
    /\ Get(Get(MappedIn.data).endpoints) # <<>>
FirstEndpoint == Get(Get(MappedIn.data).endpoints)[1]

\* C8: gradeToSeverity follows the shared table (A+ and A low, B and C medium,
\* every other or absent grade high), and the grade finding of the
\* header-grading mapper and of the TLS-grading mapper carries that severity.
C8_GradeTable ==
    /\ Called("gradeToSeverity") =>
          MappedOut.out = <<ExpectedSeverity(MappedIn.grade)>>
    /\ (Called("mapSecurityHeaders") /\ MappedIn.data # None
          /\ Truthy(Get(MappedIn.data).grade)) =>
          /\ Len(MappedOut.out) >= 1
          /\ MappedOut.out[1].title = <<"SecurityHeaders grade ", Get(Get(MappedIn.data).grade)>>
          /\ MappedOut.out[1].severity = ExpectedSeverity(Get(MappedIn.data).grade)
    /\ (Called("mapSsl") /\ HasEndpoint) =>
          /\ Len(MappedOut.out) >= 1
          /\ MappedOut.out[1].title[1] = "TLS grade "
          /\ MappedOut.out[1].severity = ExpectedSeverity(FirstEndpoint.grade)

\* the header-grading mapper has graded a C as medium
C8_Witness ==
    /\ Called("mapSecurityHeaders") /\ MappedIn.data # None
    /\ Get(MappedIn.data).grade = Some("C")
    /\ MappedOut.out[1].severity = "medium"

\* seconds from the clock reading to the certificate's expiry
Remaining == Get(FirstEndpoint.notAfter) - MappedIn.t

\* mapSsl was handed a certificate with an expiry timestamp
ExpiryGiven ==
    /\ Called("mapSsl") /\ HasEndpoint
    /\ FirstEndpoint.notAfter # None /\ Get(FirstEndpoint.notAfter) # 0

\* the expiry finding of mapSsl's result, which follows the grade finding
HasExpiryFinding == Len(MappedOut.out) = 2 /\ MappedOut.out[2].title[1] = "TLS cert expires in "

\* the expiry finding is medium and its N is the remaining time to the nearest day
ExpiryFindingRounded ==
    /\ MappedOut.out[2].severity = "medium"
    /\ \E n \in (0 - 10)..30 :
          /\ MappedOut.out[2].title = <<"TLS cert expires in ", ToString(n), " days">>
          /\ 2 * n * 86400 - 86400 <= 2 * Remaining
          /\ 2 * Remaining < 2 * n * 86400 + 86400

\* C9 as claimed: for every expiry timestamp and clock reading, mapSsl emits the
\* medium "expires in N days" finding exactly when less than 30 days remain, N
\* being the remaining time rounded to whole days.
C9_ExpiryUnderThirtyDays ==
    ExpiryGiven =>
        /\ HasExpiryFinding <=> Remaining < 30 * 86400
        /\ HasExpiryFinding => ExpiryFindingRounded

\* C9 as amended: mapSsl emits the medium "expires in N days" finding exactly
\* when N, the remaining time rounded to the nearest whole day, is under 30, that
\* is when less than 29.5 days remain; without an expiry timestamp it emits none.
C9_ExpiryRoundedUnderThirty ==
    /\ ExpiryGiven =>
          /\ HasExpiryFinding <=> 2 * Remaining < 59 * 86400
          /\ HasExpiryFinding => ExpiryFindingRounded
    /\ (Called("mapSsl") /\ HasEndpoint /\ ~ExpiryGiven) => Len(MappedOut.out) = 1

\* ten days remain and the finding says "10"
C9_Witness ==
    /\ ExpiryGiven
    /\ Remaining = 10 * 86400
    /\ HasExpiryFinding
    /\ MappedOut.out[2].title[2] = "10"

Digits == {"0", "1", "2", "3", "4", "5", "6", "7", "8", "9"}

\* net.isIP for dotted IPv4 literals: four groups of one to three digits
isIP(h) ==
    LET dots == {k \in 1..Len(h) : h[k] = "."}
        ends == {0, Len(h) + 1} \cup dots
    IN  /\ \A k \in 1..Len(h) : h[k] \in Digits \cup {"."}
        /\ Cardinality(dots) = 3
        /\ \A a \in ends : a <= Len(h) =>
              \E b \in ends : b > a + 1 /\ b <= a + 4 /\ \A c \in ends : ~(a < c /\ c < b)

\* the target's scheme is http
SchemeIsHttp(r) == SchemeLen(r) = 7

UnencryptedTitle == <<"Target served over HTTP (unencrypted)">>
RawIpTitle == <<"Target is an IP address (possible direct server exposure)">>

HasTitled(list, sev, title) ==
    \E k \in 1..Len(list) : list[k].severity = sev /\ list[k].title = title

\* C10: a quick scan whose probe succeeded applies the target rules as well as
\* the header rules: an http target gets a high "unencrypted" finding and a
\* target whose host is an IP literal gets a medium "raw IP address" finding.
C10_QuickAppliesTargetRules ==
    (pc = "done" /\ Quick /\ snap # None /\ Get(snap).error = None) =>
        /\ SchemeIsHttp(raw) => HasTitled(Result.findings, "high", UnencryptedTitle)
        /\ isIP(tidyHost(raw)) => HasTitled(Result.findings, "medium", RawIpTitle)

\* a header is present under any spelling of its name, with a non-empty value
Present(h, names) == \E k \in 1..Len(h) : h[k][1] \in names /\ h[k][2] # ""

HstsNames == {"strict-transport-security", "Strict-Transport-Security"}
CspNames == {"content-security-policy", "Content-Security-Policy"}
XfoNames == {"x-frame-options", "X-Frame-Options"}
ServerNames == {"server", "Server"}

\* the header rows of the rule table that fire, in table order: <<severity, title>>
FiredRules(h) ==
    (IF Present(h, HstsNames) THEN <<>> ELSE << <<"medium", "Missing HSTS">> >>)
    \o (IF Present(h, CspNames) THEN <<>> ELSE << <<"medium", "Missing CSP">> >>)
    \o (IF Present(h, XfoNames) THEN <<>> ELSE << <<"low", "Missing X-Frame-Options">> >>)
    \o (IF Present(h, ServerNames) THEN << <<"low", "Server banner: ">> >> ELSE <<>>)

\* C11: for a successful snapshot the header rules fire independently and in
\* table order (missing HSTS medium, missing CSP medium, missing X-Frame-Options
\* low, server banner low), whatever the case of the header names; a snapshot
\* lacking the three security headers yields medium, medium, low first; and when
\* no rule fires the result is exactly one low "no issues" finding, never empty.
C11_HeaderRulesInTableOrder ==
    Called("basicHeaderRules") =>
        LET fired == FiredRules(MappedIn.headers)
            out == MappedOut.out
        IN  /\ Len(out) >= 1
            /\ IF fired = <<>>
               THEN /\ Len(out) = 1
                    /\ out[1].severity = "low"
                    /\ out[1].title[1] = "No obvious header issues for "
               ELSE /\ Len(out) = Len(fired)
                    /\ \A k \in 1..Len(fired) :
                          /\ out[k].severity = fired[k][1]
                          /\ out[k].title[1] = fired[k][2]
            /\ (~Present(MappedIn.headers, HstsNames) /\ ~Present(MappedIn.headers, CspNames)
                  /\ ~Present(MappedIn.headers, XfoNames)) =>
                  /\ Len(out) >= 3
                  /\ <<out[1].severity, out[2].severity, out[3].severity>>
                        = <<"medium", "medium", "low">>
                  /\ ~Present(MappedIn.headers, ServerNames) => Len(out) = 3

\* the three security headers arrive capitalised and no rule fires
C11_Witness ==
    /\ Called("basicHeaderRules")
    /\ \E k \in 1..Len(MappedIn.headers) : MappedIn.headers[k][1] = "Strict-Transport-Security"
    /\ \E k \in 1..Len(MappedIn.headers) : MappedIn.headers[k][1] = "Content-Security-Policy"
    /\ \E k \in 1..Len(MappedIn.headers) : MappedIn.headers[k][1] = "X-Frame-Options"
    /\ Len(MappedOut.out) = 1
    /\ MappedOut.out[1].severity = "low"
    /\ MappedOut.out[1].title[1] = "No obvious header issues for "

\* the loop ended on the answer to a poll, not on the attempt budget
EndedOnAnswer ==
    \/ ssl.status = "fulfilled"
    \/ ssl.status = "rejected" /\ ssl.reason \in {"SSL Labs error", "transport", "nodata"}

\* C12: a terminal observation ends the poll loop at once, with no further poll
\* and no further sleep: READY (also a cached result on the first attempt) gives
\* Ready with the payload; an ERROR or unsupported-host status and a transport
\* error give Errored and are not retried. Counted: when the loop has ended on
\* an answer, every earlier poll answered pending and was followed by one sleep,
\* and the last poll by none; while the loop runs, every answered poll was pending.
C12_TerminalAnswerEndsLoop ==
    /\ EndedOnAnswer =>
          /\ ssl.pendings = ssl.polls - 1
          /\ ssl.sleeps = ssl.polls - 1
          /\ ssl.i = ssl.polls - 1
          /\ now = StartTime + 15 * (ssl.polls - 1)
          /\ Has(settled, "ssl")
    /\ ssl.status = "fulfilled" => ssl.data # None /\ Get(ssl.data).status = "READY"
    /\ ssl.status = "rejected" => ssl.data = None
    /\ ssl.status = "polling" => ssl.pendings = ssl.polls - 1 /\ ssl.sleeps = ssl.polls - 1
    /\ ssl.status = "sleeping" => ssl.pendings = ssl.polls /\ ssl.sleeps = ssl.polls
    /\ (ssl.status = "rejected" /\ ~EndedOnAnswer) => ssl.reason = "SSL Labs timed out"

\* the first poll answered READY: Ready with the payload and no sleep at all
C12_Witness ==
    /\ ssl.status = "fulfilled" /\ ssl.data # None
    /\ ssl.polls = 1 /\ ssl.sleeps = 0 /\ now = StartTime
    /\ pc = "done"

\* polls are bounded, each poll after the first follows a completed 15 s sleep,
\* and a sleep is started only for a poll that answered pending
PollLoopCounts ==
    /\ ssl.polls <= 12
    /\ ssl.polls >= 1 => now - StartTime >= 15 * (ssl.polls - 1)
    /\ ssl.sleeps <= ssl.pendings
    /\ ssl.pendings <= ssl.polls

\* once the loop has reached a terminal outcome it neither polls nor sleeps again
NoPollAfterTerminal ==
    ssl.status \in {"fulfilled", "rejected"} =>
        /\ ssl'.polls = ssl.polls
        /\ ssl'.sleeps = ssl.sleeps
        /\ ssl'.status = ssl.status

\* C18: in every reachable state of sslLabsScan at most 12 polls have been
\* issued, no poll is issued after a terminal outcome, two polls are never issued
\* without a 15-second sleep between them, and the sleeps never outnumber the
\* polls that answered pending.
C18_PollLoopInvariant == []PollLoopCounts /\ [][NoPollAfterTerminal]_vars

\* the loop is at its twelfth poll, eleven sleeps after the first
C18_Witness ==
    /\ ssl.status = "polling" /\ ssl.polls = 12 /\ ssl.sleeps = 11 /\ ssl.pendings = 11
    /\ now = StartTime + 15 * 11

\* the findings of one adapter, none if it did not succeed
PartOf(a) ==
    CASE a = "sh"  -> IF sh.status = "fulfilled" THEN mapSecurityHeaders(sh.data).out ELSE <<>>
      [] a = "ssl" -> IF ssl.status = "fulfilled" THEN mapSsl(ssl.data, now).out ELSE <<>>
      [] a = "shd" -> IF shd.status = "fulfilled" /\ ShodanRan THEN mapShodan(shd.data).out
                      ELSE <<>>

\* an advanced scan has answered with the findings of its adapters
AnsweredFromAdapters ==
    pc = "done" /\ Advanced /\ Answered /\ Result.status = 200 /\ snap = None

\* in list, every finding of adapter x comes before every finding of adapter y
Precedes(list, x, y) ==
    \A i, j \in 1..Len(list) :
        (Has(PartOf(x), list[i]) /\ Has(PartOf(y), list[j])) => i < j

\* the adapters are listed in the given order
ListedInOrder(list, order) ==
    \A a, b \in 1..Len(order) : a < b => Precedes(list, order[a], order[b])

\* C13 as claimed: the merged result lists the findings of the adapters that
\* succeeded in the order in which the adapters completed.
C13_MergedInCompletionOrder ==
    AnsweredFromAdapters => ListedInOrder(Result.findings, settled)

\* C13 as amended: the merged result lists the findings of the adapters that
\* succeeded in the fixed order header-grading, TLS-grading,
\* exposure-intelligence, whatever the order in which the adapters completed.
C13_MergedInFixedOrder ==
    AnsweredFromAdapters =>
        /\ ListedInOrder(Result.findings, <<"sh", "ssl", "shd">>)
        /\ Result.findings = PartOf("sh") \o PartOf("ssl") \o PartOf("shd")

\* Shodan settled first and the header-grading request last, both with
\* findings, and the header-grading findings lead the result
C13_Witness ==
    /\ AnsweredFromAdapters
    /\ settled = <<"shd", "ssl", "sh">>
    /\ PartOf("shd") # <<>> /\ PartOf("sh") # <<>>
    /\ Result.findings[1] = PartOf("sh")[1]
    /\ Result.findings[Len(Result.findings)] = PartOf("shd")[Len(PartOf("shd"))]

\* an adapter has reached a terminal state
Terminal(p) == p.status = "fulfilled" \/ p.status = "rejected"

\* C14: an advanced scan produces its result only after every launched adapter
\* is terminal (fulfilled or rejected); the failure of one adapter cancels no
\* sibling; and while the TLS adapter is still polling, the header-grading and
\* exposure-intelligence requests have been issued and can complete.
C14_JoinAfterAllSettled ==
    /\ (Advanced /\ (pc \in {"fallback", "done"} \/ Answered \/ merged # None)) =>
          Terminal(sh) /\ Terminal(ssl) /\ Terminal(shd)
    /\ (Advanced /\ pc = "advanced") =>
          /\ {"securityheaders", "ssllabs"} \subseteq requests
          /\ Truthy(SHODAN_KEY) => "shodan" \in requests
          /\ sh.status \in {"pending", "fulfilled", "rejected"}
          /\ shd.status \in {"pending", "fulfilled", "rejected"}
          /\ sh.status = "pending" =>
                \A d \in ScanHeaderData : ENABLED ShSettles(Fulfilled(d))
          /\ shd.status = "pending" =>
                \A d \in ScanShodanData : ENABLED ShdSettles(Fulfilled(d))
          /\ ssl.status = "polling" =>
                \A d \in ScanSslData : ENABLED SslPollReturns("READY", d)
          /\ ssl.status = "sleeping" => ENABLED SslWakes

\* the header-grading request has failed, the Shodan request has completed
\* after it, and the TLS adapter is still between two polls
C14_Witness ==
    /\ Advanced /\ pc = "advanced"
    /\ settled = <<"sh", "shd">>
    /\ sh.status = "rejected"
    /\ shd.status = "fulfilled" /\ shd.data # None
    /\ ssl.status = "sleeping" /\ ssl.polls >= 2
    /\ ~Answered

\* C15 as claimed: in an advanced scan the probe is dispatched together with
\* the adapters: its request is issued at scan start, before any adapter has
\* settled, and not only after they have all finished.
C15_ProbeDispatchedWithAdapters ==
    (Advanced /\ pc = "advanced") => "probe" \in requests

\* C15 as amended: in an advanced scan the probe is not dispatched with the
\* adapters: its request is issued only after every adapter has settled, and
\* only when the adapters' merged findings are empty.
C15_ProbeOnlyAsFallback ==
    Advanced =>
        /\ pc = "advanced" => "probe" \notin requests
        /\ "probe" \in requests =>
              /\ Terminal(sh) /\ Terminal(ssl) /\ Terminal(shd)
              /\ Len(settled) = 3
              /\ merged = Some(<<>>)
              /\ pc \in {"fallback", "done"}
        /\ snap # None => "probe" \in requests

\* the three adapters have settled with nothing to show and the probe is out
C15_Witness ==
    /\ Advanced /\ pc = "fallback"
    /\ "probe" \in requests
    /\ Terminal(sh) /\ Terminal(ssl) /\ Terminal(shd)
    /\ merged = Some(<<>>)
    /\ snap = None

\* the payload handed to mapSecurityHeaders is an object
HeaderPayloadGiven == Called("mapSecurityHeaders") /\ MappedIn.data # None
HeaderPayload == Get(MappedIn.data)
MissingOf(d) == IF d.missing = None THEN <<>> ELSE Get(d.missing)
WeakOf(d) == IF d.partial = None THEN <<>> ELSE Get(d.partial)

\* from position first on, out lists one medium finding per missing header and
\* then one low finding per weak header, in payload order
HeaderListFindings(out, first, d) ==
    /\ \A k \in 1..Len(MissingOf(d)) :
          /\ out[first + k - 1].severity = "medium"
          /\ out[first + k - 1].title = <<"Missing ", MissingOf(d)[k], " header">>
    /\ \A k \in 1..Len(WeakOf(d)) :
          /\ out[first + Len(MissingOf(d)) + k - 1].severity = "low"
          /\ out[first + Len(MissingOf(d)) + k - 1].title = <<WeakOf(d)[k], " header weak">>

\* C16 as claimed: for every header-grading payload mapSecurityHeaders emits
\* exactly one finding for the overall grade (severity from the grade table, an
\* absent grade counting as high), then one medium finding per missing header
\* and one low finding per weak header: 1 + |missing| + |weak| findings.
C16_OneGradeFindingAlways ==
    HeaderPayloadGiven =>
        /\ ~MappedOut.threw
        /\ Len(MappedOut.out) = 1 + Len(MissingOf(HeaderPayload)) + Len(WeakOf(HeaderPayload))
        /\ MappedOut.out[1].title[1] = "SecurityHeaders grade "
        /\ MappedOut.out[1].severity = ExpectedSeverity(HeaderPayload.grade)
        /\ HeaderListFindings(MappedOut.out, 2, HeaderPayload)

\* the payload names a grade (a non-empty string)
GradeGiven(d) == d.grade # None /\ Get(d.grade) # ""

\* C16 as amended: for every header-grading payload object mapSecurityHeaders
\* emits one finding for the overall grade (severity from the grade table) when
\* the payload names a grade and none when the grade is absent or empty, then
\* one medium finding per missing header and one low finding per weak header:
\* (1 if a grade is named, else 0) + |missing| + |weak| findings.
C16_GradeFindingWhenGraded ==
    HeaderPayloadGiven =>
        LET d == HeaderPayload
            g == IF GradeGiven(d) THEN 1 ELSE 0
        IN  /\ ~MappedOut.threw
            /\ Len(MappedOut.out) = g + Len(MissingOf(d)) + Len(WeakOf(d))
            /\ GradeGiven(d) =>
                  /\ MappedOut.out[1].title = <<"SecurityHeaders grade ", Get(d.grade)>>
                  /\ MappedOut.out[1].severity = ExpectedSeverity(d.grade)
            /\ HeaderListFindings(MappedOut.out, g + 1, d)

\* grade F with two missing headers and one weak header: four findings
C16_Witness ==
    /\ HeaderPayloadGiven
    /\ HeaderPayload.grade = Some("F")
    /\ Len(MissingOf(HeaderPayload)) = 2 /\ Len(WeakOf(HeaderPayload)) = 1
    /\ Len(MappedOut.out) = 4
    /\ MappedOut.out[1].severity = "high"
    /\ MappedOut.out[4].severity = "low"

\* the payload handed to mapShodan is an object
ShodanPayloadGiven == Called("mapShodan") /\ MappedIn.data # None
PortsOf(d) == IF d.ports = None THEN <<>> ELSE Get(d.ports)

\* C17: for every exposure-intelligence payload mapShodan emits exactly one
\* finding per disclosed port, in payload order, high exactly for ports 22 and
\* 3389 and medium otherwise; a payload with no port list yields no finding.
C17_OneFindingPerPort ==
    ShodanPayloadGiven =>
        LET ports == PortsOf(Get(MappedIn.data))
            out == MappedOut.out
        IN  /\ ~MappedOut.threw
            /\ Len(out) = Len(ports)
            /\ \A k \in 1..Len(ports) :
                  /\ out[k].title[1] = "Port " /\ out[k].title[2] = ToString(ports[k])
                  /\ out[k].severity = "high" <=> ports[k] \in {22, 3389}
                  /\ out[k].severity = "medium" <=> ports[k] \notin {22, 3389}
            /\ Get(MappedIn.data).ports = None => out = <<>>

\* the payload lists 3389 and 443: a high and a medium finding, in that order
C17_Witness ==
    /\ ShodanPayloadGiven
    /\ Get(MappedIn.data).ports = Some(<<3389, 443>>)
    /\ Len(MappedOut.out) = 2
    /\ MappedOut.out[1].severity = "high" /\ MappedOut.out[1].title[2] = "3389"
    /\ MappedOut.out[2].severity = "medium" /\ MappedOut.out[2].title[2] = "443"

\* the request asks for exactly the profile 'full'
ExactlyFull == body.profile = Some("full")
Providers == {"securityheaders", "ssllabs", "shodan"}
AdaptersIdle == sh = Idle /\ ssl = SslIdle /\ shd = Idle /\ settled = <<>> /\ merged = None

\* C19: an accepted scan whose profile is missing or anything other than
\* exactly 'full' issues only the probe request and never starts the
\* header-grading, TLS-grading or exposure-intelligence adapter; a provider is
\* called only when the profile is exactly 'full'.
C19_QuickIssuesOnlyProbe ==
    /\ (Accepted /\ ~ExactlyFull) => (requests = {"probe"} /\ AdaptersIdle)
    /\ requests \cap Providers # {} => (Accepted /\ ExactlyFull)
    /\ ~AdaptersIdle => (Accepted /\ ExactlyFull)

\* a scan with profile 'FULL' answered after the probe alone
C19_Witness ==
    /\ Accepted /\ body.profile = Some("FULL")
    /\ pc = "done" /\ Answered
    /\ requests = {"probe"} /\ AdaptersIdle

====
